---------------------------- MODULE Spec2Model ----------------------------
(***************************************************************************)
(* A model of Cache::KFifoCache (src/KFifoCache.h): a capacity-bounded     *)
(* FIFO cache made of a doubly linked queue of nodes between two sentinel  *)
(* nodes (dummyHead_, dummyTail_) and an index nodeMap_ from key to node.  *)
(*                                                                         *)
(* The heap of FifoNode objects is an arena: a node is an id in NodeIds,   *)
(* its fields are the functions key_, value_, prev_ (weak) and next_       *)
(* (owning).  A node lives as long as a shared_ptr owns it; a node nobody  *)
(* owns is destroyed, which the model shows by resetting its fields.       *)
(*                                                                         *)
(* Spec takes put, get and remove as whole calls of one caller; ConcSpec   *)
(* lets several threads run them statement by statement under mutex_.      *)
(***************************************************************************)
EXTENDS Integers, Sequences, FiniteSets, TLC

\* ------------------------------------------------------------- bounds
NumKeys == 4
NumVals == 2
MaxCap == 2
\* the concurrent runs: threads, and the largest capacity of the shard they
\* share (its keys are 0..ConcCap, one more than fit)
NumThreads == 2
ConcCap == 1

\* the sharded cache: the largest total capacity and shard count its
\* constructor is given, and the largest parallelism the host reports
MaxTotal == 2
MaxSlices == 3
MaxHost == 2

Keys == 0..(NumKeys - 1)
Values == 0..(NumVals - 1)
\* capacities a cache is constructed with: negative, zero and positive
Capacities == (0 - 1)..MaxCap

\* Key() and Value(): the value-initialised key and value of the sentinels
DefaultKey == 0
DefaultValue == 0

\* nullptr / an empty weak_ptr
NULL == 0
\* the two sentinel nodes made by initializeQueue
dummyHead_ == 1
dummyTail_ == 2
\* node ids: the sentinels, one node per key, and as many spare ones
NumNodes == 2 * NumKeys + 2
NodeIds == 1..NumNodes

VARIABLES
    capacity_,   \* int capacity_
    nodeMap_,    \* NodeMap nodeMap_: a function from the present keys to nodes
    key_,        \* FifoNode::key_ of every node
    value_,      \* FifoNode::value_ of every node
    prev_,       \* FifoNode::prev_ (weak_ptr) of every node, NULL when empty
    next_,       \* FifoNode::next_ (shared_ptr) of every node, NULL when empty
    call,        \* history: the last completed call and what it returned
    older,       \* history: for each present key, the keys that were present
                 \* when it last entered the index and have stayed since
    hist,        \* history: the calls since construction, kept while they
                 \* follow one of the scenarios below
    mutex_,      \* std::mutex mutex_: the thread that holds it, or NoThread
    thread,      \* each thread's running call: where it is, its arguments
                 \* and its locals
    seq,         \* history: the heap the calls so far would have left had
                 \* each run alone, in the order they took the mutex
    sliceNum_,   \* int KHashFifoCache::sliceNum_
    fifoSliceCaches_,
                 \* the vector of shards: for each index from 0, the
                 \* KFifoCache there, as its capacity_, its heap and the
                 \* holder of its mutex_
    args,        \* history: the arguments the KHashFifoCache constructor
                 \* was called with
    host,        \* the build: what hardware_concurrency() reports and what
                 \* std::hash<Key> computes
    hcall,       \* history: the last completed call on the KHashFifoCache
    fault        \* the process has run into a division by zero

heapVars == <<nodeMap_, key_, value_, prev_, next_>>
histVars == <<call, older, hist>>
concVars == <<mutex_, thread, seq>>
sliceVars == <<sliceNum_, fifoSliceCaches_, args, host, hcall, fault>>
vars == <<capacity_, nodeMap_, key_, value_, prev_, next_, call, older, hist,
          mutex_, thread, seq,
          sliceNum_, fifoSliceCaches_, args, host, hcall, fault>>

\* ------------------------------------------------------------- the heap
\* The cache's mutable state as one record, so that the private helpers
\* can be written as functions from heap to heap, statement by statement.
Heap ==
    [nodeMap |-> nodeMap_, key |-> key_, value |-> value_,
     prev |-> prev_, next |-> next_]

Range(f) == {f[x] : x \in DOMAIN f}

\* the nodes reachable from S over owning next_ pointers
RECURSIVE Reach(_, _)
Reach(h, S) ==
    LET T == S \cup ({h.next[n] : n \in S} \ {NULL})
    IN IF T = S THEN S ELSE Reach(h, T)

\* the nodes some shared_ptr keeps alive: the two members dummyHead_ and
\* dummyTail_, the index's values, the locals of running calls, and the
\* next_ of any live node
Live(h, locals) ==
    Reach(h, {dummyHead_, dummyTail_} \cup Range(h.nodeMap) \cup (locals \ {NULL}))

\* shared_ptr / weak_ptr bookkeeping: a node no shared_ptr owns is destroyed
\* (its fields are gone), and a weak_ptr to a destroyed node is expired
Release(h, locals) ==
    LET L == Live(h, locals)
    IN [h EXCEPT
          !.key = [n \in NodeIds |-> IF n \in L THEN h.key[n] ELSE DefaultKey],
          !.value = [n \in NodeIds |-> IF n \in L THEN h.value[n] ELSE DefaultValue],
          !.next = [n \in NodeIds |-> IF n \in L THEN h.next[n] ELSE NULL],
          !.prev = [n \in NodeIds |->
                      IF n \in L /\ h.prev[n] \in L THEN h.prev[n] ELSE NULL]]

\* std::make_shared<FifoNodeType>(key, value): a fresh node.  Which address
\* the allocator hands out is not observable by the cache, so the model
\* fixes one allocator: the node of a key goes to the key's own id when
\* that is free (it is, unless the key already has a live node), and to
\* the least free id otherwise.
NewNode(h, locals, key) ==
    LET free == NodeIds \ Live(h, locals)
    IN IF dummyTail_ + 1 + key \in free
       THEN dummyTail_ + 1 + key
       ELSE CHOOSE n \in free : \A m \in free : n <= m

make_shared(h, node, key, value) ==
    [h EXCEPT !.key[node] = key, !.value[node] = value,
              !.prev[node] = NULL, !.next[node] = NULL]

\* nodeMap_.find(key) != nodeMap_.end()
found(h, key) == key \in DOMAIN h.nodeMap

\* nodeMap_.size()
size(h) == Cardinality(DOMAIN h.nodeMap)

\* nodeMap_.erase(key)
erase(h, key) ==
    [h EXCEPT !.nodeMap = [k \in (DOMAIN h.nodeMap) \ {key} |-> h.nodeMap[k]]]

\* nodeMap_[key] = node
insert(h, key, node) ==
    [h EXCEPT !.nodeMap =
        [k \in (DOMAIN h.nodeMap) \cup {key} |->
            IF k = key THEN node ELSE h.nodeMap[k]]]

\* ------------------------------------------------------ private helpers
\* KFifoCache::initializeQueue, on the members as the constructor leaves them
initializeQueue ==
    [nodeMap |-> [k \in {} |-> NULL],
     key |-> [n \in NodeIds |-> DefaultKey],
     value |-> [n \in NodeIds |-> DefaultValue],
     prev |-> [n \in NodeIds |-> IF n = dummyTail_ THEN dummyHead_ ELSE NULL],
     next |-> [n \in NodeIds |-> IF n = dummyHead_ THEN dummyTail_ ELSE NULL]]

\* mutant of enqueueNode: link node behind dummyHead_
enqueueAtHead(h, node) ==
    LET h1 == [h EXCEPT !.next[node] = h.next[dummyHead_]]
        h2 == [h1 EXCEPT !.prev[node] = dummyHead_]
        h3 == [h2 EXCEPT !.prev[h2.next[dummyHead_]] = node]
    IN [h3 EXCEPT !.next[dummyHead_] = node]

\* KFifoCache::enqueueNode: link node in front of dummyTail_
enqueueNode(h, node) ==
    LET h1 == [h EXCEPT !.prev[node] = h.prev[dummyTail_]]
        h2 == [h1 EXCEPT !.next[node] = dummyTail_]
        h3 == [h2 EXCEPT !.next[h2.prev[dummyTail_]] = node]
    IN [h3 EXCEPT !.prev[dummyTail_] = node]

\* mutant of removeNode: the successor's back link is left as it was
removeNodeForwardOnly(h, node) ==
    IF h.prev[node] # NULL /\ h.next[node] # NULL
    THEN LET prev == h.prev[node]
             h1 == [h EXCEPT !.next[prev] = h.next[node]]
         IN [h1 EXCEPT !.next[node] = NULL]
    ELSE h

\* KFifoCache::removeNode: unlink node when it has both neighbours
removeNode(h, node) ==
    IF h.prev[node] # NULL /\ h.next[node] # NULL
    THEN LET prev == h.prev[node]
             h1 == [h EXCEPT !.next[prev] = h.next[node]]
             h2 == [h1 EXCEPT !.prev[h1.next[node]] = prev]
         IN [h2 EXCEPT !.next[node] = NULL]
    ELSE h

\* mutant of updateExistingNode: the update also moves the node to the tail
updateAndRefresh(h, node, value) ==
    enqueueNode(removeNode([h EXCEPT !.value[node] = value], node), node)

\* KFifoCache::updateExistingNode: node->setValue(value), nothing else
updateExistingNode(h, node, value) ==
    [h EXCEPT !.value[node] = value]

\* mutant of evictOldest: the two oldest entries are evicted
evictOldestTwice(h) ==
    LET oldestNode == h.next[dummyHead_]
        h1 == removeNode(h, oldestNode)
        h2 == Release(erase(h1, h1.key[oldestNode]), {})
        secondNode == h2.next[dummyHead_]
        h3 == removeNode(h2, secondNode)
    IN Release(erase(h3, h3.key[secondNode]), {})

\* mutant of evictOldest: the node next to dummyTail_ is evicted
evictNewest(h) ==
    LET newestNode == h.prev[dummyTail_]
        h1 == removeNode(h, newestNode)
        h2 == erase(h1, h1.key[newestNode])
    IN Release(h2, {})

\* KFifoCache::evictOldest: unlink dummyHead_->next_ and erase its key; the
\* local oldestNode is the node's last owner
evictOldest(h) ==
    LET oldestNode == h.next[dummyHead_]
        h1 == removeNode(h, oldestNode)
        h2 == erase(h1, h1.key[oldestNode])
    IN Release(h2, {})

\* mutant of isFull: > for >=
isFullOffByOne(h, capacity) ==
    IF capacity < 0 THEN FALSE ELSE size(h) > capacity

\* nodeMap_.size() >= capacity_: size_t against int, so capacity_ is
\* converted to size_t and a negative capacity_ becomes a number no size
\* reaches
isFull(h, capacity) ==
    IF capacity < 0 THEN FALSE ELSE size(h) >= capacity

\* mutant of addNewNode: the new node is linked and indexed first, and the
\* cache then evicts when its size has reached the capacity
addThenEvict(h, capacity, key, value) ==
    LET newNode == NewNode(h, {}, key)
        h1 == make_shared(h, newNode, key, value)
        h2 == enqueueNode(h1, newNode)
        h3 == insert(h2, key, newNode)
    IN IF isFull(h3, capacity) THEN evictOldest(h3) ELSE h3

\* KFifoCache::addNewNode
addNewNode(h, capacity, key, value) ==
    LET h1 == IF isFull(h, capacity) THEN evictOldest(h) ELSE h
        newNode == NewNode(h1, {}, key)
        h2 == make_shared(h1, newNode, key, value)
        h3 == enqueueNode(h2, newNode)
    IN insert(h3, key, newNode)

\* ------------------------------------------------------- public methods
\* mutant of put: no early return for capacity_ <= 0
putNoCheck(h, capacity, key, value) ==
    IF found(h, key)
    THEN updateExistingNode(h, h.nodeMap[key], value)
    ELSE addNewNode(h, capacity, key, value)

\* KFifoCache::put, the whole call
put(h, capacity, key, value) ==
    IF capacity <= 0
    THEN h
    ELSE IF found(h, key)
         THEN updateExistingNode(h, h.nodeMap[key], value)
         ELSE addNewNode(h, capacity, key, value)

\* mutant of get: a hit moves the node to the tail, as an LRU cache does
getRefresh(h, key, value) ==
    IF found(h, key)
    THEN [found |-> TRUE, value |-> h.value[h.nodeMap[key]],
          heap |-> enqueueNode(removeNode(h, h.nodeMap[key]), h.nodeMap[key])]
    ELSE [found |-> FALSE, value |-> value, heap |-> h]

\* mutant of get: the key is looked up by scanning the queue from
\* dummyHead_ to dummyTail_, sentinels included
getByScan(h, key, value) ==
    LET hits == {n \in Live(h, {}) : h.key[n] = key}
    IN IF hits # {}
       THEN [found |-> TRUE, value |-> h.value[CHOOSE n \in hits : TRUE], heap |-> h]
       ELSE [found |-> FALSE, value |-> value, heap |-> h]

\* KFifoCache::get(Key, Value&): the bool returned, the caller's value
\* after the call, which a miss leaves as it was, and the heap, which no
\* statement of get writes
get(h, key, value) ==
    IF found(h, key)
    THEN [found |-> TRUE, value |-> h.value[h.nodeMap[key]], heap |-> h]
    ELSE [found |-> FALSE, value |-> value, heap |-> h]

\* KFifoCache::remove, the whole call
remove(h, key) ==
    IF found(h, key)
    THEN Release(erase(removeNode(h, h.nodeMap[key]), key), {})
    ELSE h

\* ------------------------------------------------- history variables
SetHeap(h) ==
    /\ nodeMap_' = h.nodeMap
    /\ key_' = h.key
    /\ value_' = h.value
    /\ prev_' = h.prev
    /\ next_' = h.next

NoCall ==
    [op |-> "none", key |-> DefaultKey, value |-> DefaultValue,
     existed |-> FALSE, found |-> FALSE, ret |-> DefaultValue, gone |-> {}]

\* what a caller sees of a call: its arguments, whether the key was present
\* before it, what it returned and which keys left the index during it
Called(op, key, value, h, res) ==
    [op |-> op, key |-> key, value |-> value,
     existed |-> key \in DOMAIN nodeMap_,
     found |-> res.found, ret |-> res.value,
     gone |-> (DOMAIN nodeMap_) \ (DOMAIN h.nodeMap)]

NoResult == [found |-> FALSE, value |-> DefaultValue]

\* older, after a call that took the index from `before` to `after`: a key
\* that entered has every other present key before it, a key that stayed
\* keeps those of its elders that stayed, a key that left has none
Aged(before, after) ==
    [k \in Keys |->
        IF k \notin after THEN {}
        ELSE IF k \notin before THEN after \ {k}
        ELSE older[k] \cap after]

Entry(op, key, value) == [op |-> op, key |-> key, value |-> value]
Diverged == <<Entry("diverged", DefaultKey, DefaultValue)>>

\* the first n calls of h are puts of pairwise distinct keys.  These puts
\* only fill the cache, and carry the value-initialised value; the put a
\* scenario is about carries any value.
DistinctPuts(h, n) ==
    /\ n <= Len(h)
    /\ \A i \in 1..n : h[i].op = "put" /\ h[i].value = DefaultValue
    /\ \A i, j \in 1..n : i # j => h[i].key # h[j].key

FirstKeys(h, n) == {h[i].key : i \in 1..n}

\* fill: up to C + 1 distinct keys put into the empty cache
ShapeFill(h, C) ==
    /\ C >= 1
    /\ Len(h) <= C + 1
    /\ DistinctPuts(h, Len(h))

\* update: C distinct keys, put of the first key again, put of a new key,
\* get of the first key
ShapeUpdate(h, C) ==
    /\ C >= 1
    /\ Len(h) > C /\ Len(h) <= C + 3
    /\ DistinctPuts(h, C)
    /\ h[C + 1].op = "put" /\ h[C + 1].key = h[1].key
    /\ Len(h) >= C + 2 =>
          h[C + 2].op = "put" /\ h[C + 2].key \notin FirstKeys(h, C)
    /\ Len(h) >= C + 3 =>
          h[C + 3].op = "get" /\ h[C + 3].key = h[1].key

\* read: C + 1 distinct keys, get of the second, put of a new key
ShapeRead(h, C) ==
    /\ C >= 1
    /\ Len(h) > C + 1 /\ Len(h) <= C + 3
    /\ DistinctPuts(h, C + 1)
    /\ h[C + 2].op = "get" /\ h[C + 2].key = h[2].key
    /\ Len(h) >= C + 3 =>
          h[C + 3].op = "put" /\ h[C + 3].key \notin FirstKeys(h, C + 1)

\* reinsert: m <= C distinct keys, then remove, get and put of one of them
ShapeReinsert(h, C) ==
    \E m \in 1..C :
        /\ Len(h) > m /\ Len(h) <= m + 3
        /\ DistinctPuts(h, m)
        /\ h[m + 1].op = "remove" /\ h[m + 1].key \in FirstKeys(h, m)
        /\ Len(h) >= m + 2 =>
              h[m + 2].op = "get" /\ h[m + 2].key = h[m + 1].key
        /\ Len(h) >= m + 3 =>
              h[m + 3].op = "put" /\ h[m + 3].key = h[m + 1].key

\* miss: m <= C + 1 distinct keys, then up to two gets of one other key
ShapeMiss(h, C) ==
    C >= 1 /\ \E m \in 0..(C + 1) :
        /\ Len(h) > m /\ Len(h) <= m + 2
        /\ DistinctPuts(h, m)
        /\ \A i \in (m + 1)..Len(h) :
              /\ h[i].op = "get"
              /\ h[i].key = h[m + 1].key
              /\ h[i].key \notin FirstKeys(h, m)

\* inert: on a cache of capacity <= 0, a put and then a get of its key
ShapeInert(h, C) ==
    /\ C <= 0
    /\ Len(h) <= 2
    /\ Len(h) >= 1 => h[1].op = "put"
    /\ Len(h) >= 2 => h[2].op = "get" /\ h[2].key = h[1].key

\* echo: m <= C distinct keys, then a put of any key and a get of it
ShapeEcho(h, C) ==
    C >= 1 /\ \E m \in 0..C :
        /\ Len(h) > m /\ Len(h) <= m + 2
        /\ DistinctPuts(h, m)
        /\ h[m + 1].op = "put"
        /\ Len(h) >= m + 2 =>
              h[m + 2].op = "get" /\ h[m + 2].key = h[m + 1].key

Shape(h, C) ==
    \/ ShapeFill(h, C)
    \/ ShapeEcho(h, C)
    \/ ShapeUpdate(h, C)
    \/ ShapeRead(h, C)
    \/ ShapeReinsert(h, C)
    \/ ShapeMiss(h, C)
    \/ ShapeInert(h, C)

Logged(e) ==
    IF hist # Diverged /\ Shape(Append(hist, e), capacity_)
    THEN Append(hist, e)
    ELSE Diverged

\* ------------------------------------------------------------- threads
Threads == 1..NumThreads
\* an unlocked mutex
NoThread == 0
ConcKeys == 0..ConcCap
ConcCapacities == 0..ConcCap
\* the value a thread puts: neighbouring threads write different values,
\* so that the final value of a key tells which of their puts came last
ValueOf(t) == t % 2

\* the KFifoCache that is used on its own, where the shards of a
\* KHashFifoCache are 0, 1, ...
Alone == 0 - 1

\* a thread outside any call; cache is the KFifoCache its call runs on
Idle ==
    [pc |-> "idle", op |-> "none", key |-> DefaultKey, value |-> DefaultValue,
     node |-> NULL, found |-> FALSE, ret |-> DefaultValue,
     expFound |-> FALSE, expRet |-> DefaultValue, cache |-> Alone]

\* the nodes the threads' local NodePtr variables own
Locals(th) == {th[t].node : t \in Threads}

\* ------------------------------------------------------------- actions
Constructed ==
    /\ nodeMap_ = initializeQueue.nodeMap
    /\ key_ = initializeQueue.key
    /\ value_ = initializeQueue.value
    /\ prev_ = initializeQueue.prev
    /\ next_ = initializeQueue.next
    /\ call = NoCall
    /\ older = [k \in Keys |-> {}]
    /\ hist = <<>>
    /\ mutex_ = NoThread
    /\ thread = [t \in Threads |-> Idle]
    /\ seq = initializeQueue

\* what is seen of a call on the KHashFifoCache: the arguments, the shard
\* it went to, whether a get found the key, and the keys that left the
\* shards during it
HashCalled(op, key, slice, res, gone) ==
    [op |-> op, key |-> key, slice |-> slice, found |-> res, gone |-> gone]

NoHashCall == HashCalled("none", DefaultKey, 0, FALSE, {})

\* no KHashFifoCache has been constructed
Unsharded ==
    /\ sliceNum_ = 0
    /\ fifoSliceCaches_ = <<>>
    /\ args = [capacity |-> 0, sliceNum |-> 0]
    /\ host = [hardware_concurrency |-> 0, hash |-> [k \in Keys |-> k]]
    /\ hcall = NoHashCall
    /\ fault = FALSE

Init ==
    /\ capacity_ \in Capacities
    /\ Constructed
    /\ Unsharded

Put(key, value) ==
    \E h \in {put(Heap, capacity_, key, value)} :
       /\ SetHeap(h)
       /\ call' = Called("put", key, value, h, NoResult)
       /\ older' = Aged(DOMAIN nodeMap_, DOMAIN h.nodeMap)
       /\ hist' = Logged(Entry("put", key, value))
       /\ UNCHANGED <<capacity_, sliceVars, concVars>>

\* the caller's value starts value-initialised, as in get(Key)
Get(key) ==
    \E r \in {get(Heap, key, DefaultValue)} :
       /\ SetHeap(r.heap)
       /\ call' = Called("get", key, DefaultValue, r.heap, r)
       /\ older' = Aged(DOMAIN nodeMap_, DOMAIN r.heap.nodeMap)
       /\ hist' = Logged(Entry("get", key, DefaultValue))
       /\ UNCHANGED <<capacity_, sliceVars, concVars>>

Remove(key) ==
    \E h \in {remove(Heap, key)} :
       /\ SetHeap(h)
       /\ call' = Called("remove", key, DefaultValue, h, NoResult)
       /\ older' = Aged(DOMAIN nodeMap_, DOMAIN h.nodeMap)
       /\ hist' = Logged(Entry("remove", key, DefaultValue))
       /\ UNCHANGED <<capacity_, sliceVars, concVars>>

Next ==
    \/ \E key \in Keys, value \in Values : Put(key, value)
    \/ \E key \in Keys : Get(key)
    \/ \E key \in Keys : Remove(key)

Spec == Init /\ [][Next]_vars

\* ---------------------------------------------------- concurrent calls
\* The same methods, called by several threads and taken statement by
\* statement.  A thread's pc names the source line it is about to run.
At(t, pc) == thread[t].pc = pc

Goto(t, pc) == [thread EXCEPT ![t].pc = pc]

\* mutant of lock_guard: the mutex is taken whoever holds it
lockNoWait(t) == TRUE

\* std::lock_guard<std::mutex> lock(mutex_) can be constructed: the mutex
\* is free
lock_guard(t) == mutex_ = NoThread

\* a thread enters put, get or remove
CallPut(t, key, value) ==
    /\ At(t, "idle")
    /\ thread' = [thread EXCEPT ![t] =
          [Idle EXCEPT !.pc = "put_60", !.op = "put", !.key = key, !.value = value]]
    /\ UNCHANGED <<capacity_, sliceVars, heapVars, histVars, mutex_, seq>>

CallGet(t, key) ==
    /\ At(t, "idle")
    /\ thread' = [thread EXCEPT ![t] =
          [Idle EXCEPT !.pc = "get_78", !.op = "get", !.key = key]]
    /\ UNCHANGED <<capacity_, sliceVars, heapVars, histVars, mutex_, seq>>

\* a thread enters get(Key), lines 90-93: the local value is
\* value-initialised and get(key, value) is called; get(Key) itself takes
\* no lock
CallGetValue(t, key) ==
    /\ At(t, "idle")
    /\ thread' = [thread EXCEPT ![t] =
          [Idle EXCEPT !.pc = "get_78", !.op = "getv", !.key = key]]
    /\ UNCHANGED <<capacity_, sliceVars, heapVars, histVars, mutex_, seq>>

\* get(Key), line 94: return value, after get(key, value) has returned and
\* released the mutex
GetValueReturn(t) ==
    /\ At(t, "get_94")
    /\ thread' = [thread EXCEPT ![t] = Idle]
    /\ UNCHANGED <<capacity_, sliceVars, heapVars, histVars, mutex_, seq>>

CallRemove(t, key) ==
    /\ At(t, "idle")
    /\ thread' = [thread EXCEPT ![t] =
          [Idle EXCEPT !.pc = "remove_100", !.op = "remove", !.key = key]]
    /\ UNCHANGED <<capacity_, sliceVars, heapVars, histVars, mutex_, seq>>

\* mutant of PutCheck: put goes on whatever capacity_ is
PutCheckNone(t) ==
    /\ At(t, "put_60")
    /\ thread' = Goto(t, "put_63")
    /\ UNCHANGED <<capacity_, sliceVars, heapVars, histVars, mutex_, seq>>

\* put, lines 60-61: capacity_ is read before the mutex is taken
PutCheck(t) ==
    /\ At(t, "put_60")
    /\ thread' = IF capacity_ <= 0
                 THEN [thread EXCEPT ![t] = Idle]
                 ELSE Goto(t, "put_63")
    /\ UNCHANGED <<capacity_, sliceVars, heapVars, histVars, mutex_, seq>>

\* lines 63, 78, 100: the lock_guard takes the mutex.  The call takes its
\* place in the sequential order here.
Lock(t) ==
    /\ thread[t].pc \in {"put_63", "get_78", "remove_100"}
    /\ lock_guard(t)
    /\ mutex_' = t
    /\ LET a == thread[t]
       IN CASE a.op = "put" ->
                 /\ thread' = Goto(t, "put_64")
                 /\ seq' = put(seq, capacity_, a.key, a.value)
            [] a.op \in {"get", "getv"} ->
                 /\ thread' = [thread EXCEPT ![t] =
                       [a EXCEPT !.pc = "get_79",
                                 !.expFound = get(seq, a.key, a.value).found,
                                 !.expRet = get(seq, a.key, a.value).value]]
                 /\ seq' = get(seq, a.key, a.value).heap
            [] a.op = "remove" ->
                 /\ thread' = Goto(t, "remove_101")
                 /\ seq' = remove(seq, a.key)
    /\ UNCHANGED <<capacity_, sliceVars, heapVars, histVars>>

\* put, lines 64-65: the lookup; the hit keeps it->second
PutFind(t) ==
    /\ At(t, "put_64")
    /\ thread' = IF found(Heap, thread[t].key)
                 THEN [thread EXCEPT ![t].pc = "put_68",
                                     ![t].node = nodeMap_[thread[t].key]]
                 ELSE Goto(t, "add_131")
    /\ UNCHANGED <<capacity_, sliceVars, heapVars, histVars, mutex_, seq>>

\* put, lines 68-69
PutUpdate(t) ==
    /\ At(t, "put_68")
    /\ \E th \in {[thread EXCEPT ![t].pc = "unlock", ![t].node = NULL]} :
          /\ thread' = th
          /\ SetHeap(Release(
                updateExistingNode(Heap, thread[t].node, thread[t].value),
                Locals(th)))
    /\ UNCHANGED <<capacity_, sliceVars, histVars, mutex_, seq>>

\* addNewNode, line 131
AddCheck(t) ==
    /\ At(t, "add_131")
    /\ thread' = IF isFull(Heap, capacity_)
                 THEN Goto(t, "evict_168")
                 ELSE Goto(t, "add_137")
    /\ UNCHANGED <<capacity_, sliceVars, heapVars, histVars, mutex_, seq>>

\* evictOldest, lines 168-169
EvictUnlink(t) ==
    /\ At(t, "evict_168")
    /\ thread' = [thread EXCEPT ![t].pc = "evict_170",
                                ![t].node = next_[dummyHead_]]
    /\ SetHeap(removeNode(Heap, next_[dummyHead_]))
    /\ UNCHANGED <<capacity_, sliceVars, histVars, mutex_, seq>>

\* evictOldest, lines 170-171: erase, and oldestNode goes out of scope
EvictErase(t) ==
    /\ At(t, "evict_170")
    /\ \E th \in {[thread EXCEPT ![t].pc = "add_137", ![t].node = NULL]} :
          /\ thread' = th
          /\ SetHeap(Release(erase(Heap, key_[thread[t].node]), Locals(th)))
    /\ UNCHANGED <<capacity_, sliceVars, histVars, mutex_, seq>>

\* addNewNode, lines 137-138
AddEnqueue(t) ==
    /\ At(t, "add_137")
    /\ \E newNode \in {NewNode(Heap, Locals(thread), thread[t].key)} :
          /\ thread' = [thread EXCEPT ![t].pc = "add_139", ![t].node = newNode]
          /\ SetHeap(enqueueNode(
                make_shared(Heap, newNode, thread[t].key, thread[t].value),
                newNode))
    /\ UNCHANGED <<capacity_, sliceVars, histVars, mutex_, seq>>

\* addNewNode, lines 139-140: the index entry, and newNode goes out of scope
AddIndex(t) ==
    /\ At(t, "add_139")
    /\ \E th \in {[thread EXCEPT ![t].pc = "unlock", ![t].node = NULL]} :
          /\ thread' = th
          /\ SetHeap(Release(insert(Heap, thread[t].key, thread[t].node),
                             Locals(th)))
    /\ UNCHANGED <<capacity_, sliceVars, histVars, mutex_, seq>>

\* get, lines 79-86
GetFind(t) ==
    /\ At(t, "get_79")
    /\ \E r \in {get(Heap, thread[t].key, thread[t].value)} :
          /\ thread' = [thread EXCEPT ![t].pc = "unlock",
                                      ![t].found = r.found, ![t].ret = r.value]
          /\ SetHeap(r.heap)
    /\ UNCHANGED <<capacity_, sliceVars, histVars, mutex_, seq>>

\* mutant of RemoveFind: the early return of a miss leaves the mutex locked
RemoveFindLeak(t) ==
    /\ At(t, "remove_101")
    /\ thread' = IF found(Heap, thread[t].key)
                 THEN [thread EXCEPT ![t].pc = "remove_104",
                                     ![t].node = nodeMap_[thread[t].key]]
                 ELSE [thread EXCEPT ![t] = Idle]
    /\ UNCHANGED <<capacity_, sliceVars, heapVars, histVars, mutex_, seq>>

\* remove, lines 101-102: the lookup
RemoveFind(t) ==
    /\ At(t, "remove_101")
    /\ thread' = IF found(Heap, thread[t].key)
                 THEN [thread EXCEPT ![t].pc = "remove_104",
                                     ![t].node = nodeMap_[thread[t].key]]
                 ELSE Goto(t, "unlock")
    /\ UNCHANGED <<capacity_, sliceVars, heapVars, histVars, mutex_, seq>>

\* remove, line 104
RemoveUnlink(t) ==
    /\ At(t, "remove_104")
    /\ thread' = Goto(t, "remove_105")
    /\ SetHeap(removeNode(Heap, thread[t].node))
    /\ UNCHANGED <<capacity_, sliceVars, histVars, mutex_, seq>>

\* remove, line 105
RemoveErase(t) ==
    /\ At(t, "remove_105")
    /\ \E th \in {[thread EXCEPT ![t].pc = "unlock", ![t].node = NULL]} :
          /\ thread' = th
          /\ SetHeap(Release(erase(Heap, thread[t].key), Locals(th)))
    /\ UNCHANGED <<capacity_, sliceVars, histVars, mutex_, seq>>

\* the lock_guard's destructor, and the return: to the caller, or to line
\* 94 of get(Key) when that made the call; the bool that get(Key, Value&)
\* returned is dropped there
Unlock(t) ==
    /\ At(t, "unlock")
    /\ mutex_' = NoThread
    /\ thread' = IF thread[t].op = "getv"
                 THEN [thread EXCEPT ![t] =
                         [Idle EXCEPT !.pc = "get_94", !.op = "getv"]]
                 ELSE [thread EXCEPT ![t] = Idle]
    /\ UNCHANGED <<capacity_, sliceVars, heapVars, histVars, seq>>

ConcInit ==
    /\ capacity_ \in ConcCapacities
    /\ Constructed
    /\ Unsharded

ConcNext ==
    \E t \in Threads :
        \/ \E key \in ConcKeys : CallPut(t, key, ValueOf(t))
        \/ \E key \in ConcKeys : CallGet(t, key)
        \/ \E key \in ConcKeys : CallGetValue(t, key)
        \/ GetValueReturn(t)
        \/ \E key \in ConcKeys : CallRemove(t, key)
        \/ PutCheck(t)
        \/ Lock(t)
        \/ PutFind(t)
        \/ PutUpdate(t)
        \/ AddCheck(t)
        \/ EvictUnlink(t)
        \/ EvictErase(t)
        \/ AddEnqueue(t)
        \/ AddIndex(t)
        \/ GetFind(t)
        \/ RemoveFind(t)
        \/ RemoveUnlink(t)
        \/ RemoveErase(t)
        \/ Unlock(t)

ConcSpec == ConcInit /\ [][ConcNext]_vars

\* ------------------------------------------------------- KHashFifoCache
\* The sharded cache: sliceNum_ KFifoCache objects in fifoSliceCaches_,
\* and put and get routed to one of them by the key's hash.
TotalArgs == (0 - 1)..MaxTotal
SliceArgs == (0 - 1)..MaxSlices
\* std::thread::hardware_concurrency(): 0 when the host cannot tell
HostParallelism == 0..MaxHost
\* std::hash<Key> of two builds: the identity, and one that scatters
HashFuncs == {[k \in Keys |-> k], [k \in Keys |-> 5 * k + 1]}
\* the values put through the sharded cache: Value() and one other
HashValues == {DefaultValue, 1}

\* KHashFifoCache::Hash
Hash(key) == host.hash[key]

\* the digits of 2^64 in base 2^16, most significant first: what a small
\* negative capacity argument becomes as size_t and then as double (the
\* nearest double to 2^64 - c is 2^64 for c <= 1024)
Limb == 65536
TwoTo64 == <<1, 0, 0, 0, 0>>

\* long division of the digits ds by n, r carried in
RECURSIVE LongDiv(_, _, _)
LongDiv(ds, n, r) ==
    IF ds = <<>>
    THEN [q |-> <<>>, r |-> r]
    ELSE LET cur == r * Limb + Head(ds)
             rest == LongDiv(Tail(ds), n, cur % n)
         IN [q |-> <<cur \div n>> \o rest.q, r |-> rest.r]

RECURSIVE Bits(_)
Bits(n) == IF n = 0 THEN 0 ELSE 1 + Bits(n \div 2)

RECURSIVE TwoTo(_)
TwoTo(e) == IF e = 0 THEN 1 ELSE 2 * TwoTo(e - 1)

\* 2^64 / double(n) for 2 <= n < 2^12, as the int that KFifoCache(int)
\* receives: the quotient is rounded to the 53 significant bits of a
\* double (std::ceil then finds an integer), is in the range of size_t,
\* and the conversion to int keeps its low 32 bits
WrappedQuotient(n) ==
    LET d == LongDiv(TwoTo64, n, 0)
        ulp == TwoTo(12 - Bits(n))
        low == d.q[5] % ulp
        up == IF 2 * (low * n + d.r) > ulp * n THEN ulp ELSE 0
        q0 == d.q[5] - low + up
        lo16 == q0 % Limb
        hi16 == (d.q[4] + (q0 \div Limb)) % Limb
    IN IF hi16 >= Limb \div 2
       THEN (hi16 - Limb) * Limb + lo16
       ELSE hi16 * Limb + lo16

\* std::ceil(a / double(b)) for small a >= 0 and b >= 1
Ceil(a, b) == (a + b - 1) \div b

\* line 190 and the argument of line 193: the capacities a shard can be
\* constructed with.  size_t sliceSize = std::ceil(capacity_ /
\* double(sliceNum_)) is converted to the int that KFifoCache(int) takes.
\* A negative capacity argument has become 2^64 - c in the size_t
\* parameter.  With one shard the quotient 2^64 is out of the range of
\* size_t and the conversion is undefined: builds give 0 or 2^64 - 1, that
\* is 0 or -1 as int.
sliceSize(capacity, sliceNum) ==
    IF capacity >= 0
    THEN {Ceil(capacity, sliceNum)}
    ELSE IF sliceNum = 1
         THEN {0 - 1, 0}
         ELSE {WrappedQuotient(sliceNum)}

\* what the host reports where line 188 asks it; a constructor given a
\* positive sliceNum does not ask, and the model then records 0
Reports(sliceNum) == IF sliceNum > 0 THEN {0} ELSE HostParallelism

\* mutant of the shard count: a host that reports no parallelism gets one
\* shard
sliceNumAtLeastOne(sliceNum, hardware_concurrency) ==
    IF sliceNum > 0 THEN sliceNum
    ELSE IF hardware_concurrency > 0 THEN hardware_concurrency ELSE 1

\* line 188: sliceNum > 0 ? sliceNum : std::thread::hardware_concurrency()
sliceNumOf(sliceNum, hardware_concurrency) ==
    IF sliceNum > 0 THEN sliceNum ELSE hardware_concurrency

\* mutant of the constructor's loop: every shard gets the whole capacity
everyShardWhole(n, capacity, c) ==
    [i \in 0..(n - 1) |->
        [capacity_ |-> capacity, heap |-> initializeQueue, mutex_ |-> NoThread]]

\* lines 191-194: n shards, each a KFifoCache(c) as its constructor
\* leaves it
emplaceShards(n, capacity, c) ==
    [i \in 0..(n - 1) |->
        [capacity_ |-> c, heap |-> initializeQueue, mutex_ |-> NoThread]]

\* KHashFifoCache::KHashFifoCache(capacity, sliceNum).  With no shard the
\* loop does not run and sliceSize is not used.
HashConstructed(capacity, sliceNum, hardware_concurrency, hash) ==
    /\ args = [capacity |-> capacity, sliceNum |-> sliceNum]
    /\ host = [hardware_concurrency |-> hardware_concurrency, hash |-> hash]
    /\ sliceNum_ = sliceNumOf(sliceNum, hardware_concurrency)
    /\ IF sliceNum_ = 0
       THEN fifoSliceCaches_ = emplaceShards(0, capacity, 0)
       ELSE \E c \in sliceSize(capacity, sliceNum_) :
               fifoSliceCaches_ = emplaceShards(sliceNum_, capacity, c)
    /\ hcall = NoHashCall
    /\ fault = FALSE

HashInit ==
    /\ capacity_ = 0
    /\ Constructed
    /\ \E capacity \in TotalArgs, sliceNum \in SliceArgs, hash \in HashFuncs :
       \E hardware_concurrency \in Reports(sliceNum) :
          HashConstructed(capacity, sliceNum, hardware_concurrency, hash)

\* mutant of the routing: the shard is picked by the key, not by its hash
sliceIndexByKey(key) == key % sliceNum_

\* lines 201 and 209: size_t sliceIndex = Hash(key) % sliceNum_
sliceIndex(key) == Hash(key) % sliceNum_

\* Hash(key) % sliceNum_ with sliceNum_ = 0 is a division by zero, which
\* is undefined: the process is stopped by the trap, or reads a shard
\* pointer beyond the empty vector.  Either way the call does not return.
DivideByZero ==
    /\ ~fault
    /\ sliceNum_ = 0
    /\ fault' = TRUE
    /\ UNCHANGED <<sliceNum_, fifoSliceCaches_, args, host, hcall>>
    /\ UNCHANGED <<capacity_, heapVars, histVars, concVars>>

\* the keys in the shards before that are not in the shards after
Gone(before, after) ==
    {k \in Keys : \E i \in DOMAIN before :
        k \in DOMAIN before[i].heap.nodeMap /\ k \notin DOMAIN after[i].heap.nodeMap}

\* mutant of HashPut: the entry is put into every shard
HashPutAll(key, value) ==
    /\ ~fault /\ sliceNum_ # 0
    /\ fifoSliceCaches_' =
          [i \in DOMAIN fifoSliceCaches_ |->
              [fifoSliceCaches_[i] EXCEPT
                  !.heap = put(@, fifoSliceCaches_[i].capacity_, key, value)]]
    /\ hcall' = HashCalled("put", key, sliceIndex(key), FALSE,
                           Gone(fifoSliceCaches_, fifoSliceCaches_'))
    /\ UNCHANGED <<sliceNum_, args, host, fault>>
    /\ UNCHANGED <<capacity_, heapVars, histVars, concVars>>

\* KHashFifoCache::put
HashPut(key, value) ==
    /\ ~fault /\ sliceNum_ # 0
    /\ \E i \in {sliceIndex(key)} :
          /\ fifoSliceCaches_' =
                [fifoSliceCaches_ EXCEPT
                    ![i].heap = put(@, fifoSliceCaches_[i].capacity_, key, value)]
          /\ hcall' = HashCalled("put", key, i, FALSE,
                                 Gone(fifoSliceCaches_, fifoSliceCaches_'))
    /\ UNCHANGED <<sliceNum_, args, host, fault>>
    /\ UNCHANGED <<capacity_, heapVars, histVars, concVars>>

\* KHashFifoCache::get(Key, Value&), the caller's value value-initialised
HashGet(key) ==
    /\ ~fault /\ sliceNum_ # 0
    /\ \E i \in {sliceIndex(key)} :
       \E r \in {get(fifoSliceCaches_[i].heap, key, DefaultValue)} :
          /\ fifoSliceCaches_' = [fifoSliceCaches_ EXCEPT ![i].heap = r.heap]
          /\ hcall' = HashCalled("get", key, i, r.found,
                                 Gone(fifoSliceCaches_, fifoSliceCaches_'))
    /\ UNCHANGED <<sliceNum_, args, host, fault>>
    /\ UNCHANGED <<capacity_, heapVars, histVars, concVars>>

\* KHashFifoCache::get(Key): Value value{}; get(key, value); return value.
\* The caller sees a hit only in a value other than Value().
HashGetValue(key) ==
    /\ ~fault /\ sliceNum_ # 0
    /\ \E i \in {sliceIndex(key)} :
       \E r \in {get(fifoSliceCaches_[i].heap, key, DefaultValue)} :
          /\ fifoSliceCaches_' = [fifoSliceCaches_ EXCEPT ![i].heap = r.heap]
          /\ hcall' = HashCalled("getv", key, i, r.value # DefaultValue,
                                 Gone(fifoSliceCaches_, fifoSliceCaches_'))
    /\ UNCHANGED <<sliceNum_, args, host, fault>>
    /\ UNCHANGED <<capacity_, heapVars, histVars, concVars>>

HashNext ==
    \/ \E key \in Keys, value \in HashValues : HashPut(key, value)
    \/ \E key \in Keys : HashGet(key)
    \/ \E key \in Keys : HashGetValue(key)
    \/ DivideByZero

HashSpec == HashInit /\ [][HashNext]_vars

\* ------------------------------------------- calls on both kinds of cache
\* Threads that call put and the two forms of get on a KHashFifoCache,
\* and put, the two forms of get and remove on a KFifoCache used on its
\* own.  A call is taken lock by lock: the statements a KFifoCache method
\* runs between its lock_guard and its return are one step.
CacheCapacity(c) == IF c = Alone THEN capacity_ ELSE fifoSliceCaches_[c].capacity_
CacheHeap(c) == IF c = Alone THEN Heap ELSE fifoSliceCaches_[c].heap
\* the thread that holds the mutex_ of cache c
Holder(c) == IF c = Alone THEN mutex_ ELSE fifoSliceCaches_[c].mutex_

SetCacheHeap(c, h) ==
    IF c = Alone
    THEN SetHeap(h) /\ UNCHANGED fifoSliceCaches_
    ELSE /\ fifoSliceCaches_' = [fifoSliceCaches_ EXCEPT ![c].heap = h]
         /\ UNCHANGED heapVars

SetHolder(c, t) ==
    IF c = Alone
    THEN mutex_' = t /\ UNCHANGED fifoSliceCaches_
    ELSE /\ fifoSliceCaches_' = [fifoSliceCaches_ EXCEPT ![c].mutex_ = t]
         /\ UNCHANGED mutex_

lockFrame == <<capacity_, histVars, seq, sliceNum_, args, host, hcall, fault>>

\* KHashFifoCache::put, ::get(Key, Value&) and ::get(Key) are entered;
\* get(Key) value-initialises its local and calls get(key, value)
EnterHashPut(t, key, value) ==
    /\ At(t, "idle")
    /\ thread' = [thread EXCEPT ![t] =
          [Idle EXCEPT !.pc = "hput_201", !.op = "hput", !.key = key, !.value = value]]
    /\ UNCHANGED <<lockFrame, heapVars, mutex_, fifoSliceCaches_>>

EnterHashGet(t, key) ==
    /\ At(t, "idle")
    /\ thread' = [thread EXCEPT ![t] =
          [Idle EXCEPT !.pc = "hget_209", !.op = "hget", !.key = key]]
    /\ UNCHANGED <<lockFrame, heapVars, mutex_, fifoSliceCaches_>>

EnterHashGetValue(t, key) ==
    /\ At(t, "idle")
    /\ thread' = [thread EXCEPT ![t] =
          [Idle EXCEPT !.pc = "hget_209", !.op = "hgetv", !.key = key]]
    /\ UNCHANGED <<lockFrame, heapVars, mutex_, fifoSliceCaches_>>

\* lines 201-202 and 209-210: the shard is computed and its put or get is
\* called; no lock is held
Route(t) ==
    /\ thread[t].pc \in {"hput_201", "hget_209"}
    /\ sliceNum_ # 0
    /\ thread' = [thread EXCEPT
          ![t].cache = sliceIndex(thread[t].key),
          ![t].pc = IF thread[t].pc = "hput_201" THEN "put_60" ELSE "get_78"]
    /\ UNCHANGED <<lockFrame, heapVars, mutex_, fifoSliceCaches_>>

\* lines 201 and 209 with sliceNum_ = 0: Hash(key) % sliceNum_ divides by
\* zero, as in DivideByZero, and the call does not return
RouteFault(t) ==
    /\ thread[t].pc \in {"hput_201", "hget_209"}
    /\ sliceNum_ = 0
    /\ ~fault
    /\ fault' = TRUE
    /\ UNCHANGED <<capacity_, histVars, seq, sliceNum_, args, host, hcall>>
    /\ UNCHANGED <<thread, heapVars, mutex_, fifoSliceCaches_>>

\* KFifoCache::put, lines 60-61, on the thread's cache
CachePutCheck(t) ==
    /\ At(t, "put_60")
    /\ thread' = IF CacheCapacity(thread[t].cache) <= 0
                 THEN [thread EXCEPT ![t] = Idle]
                 ELSE Goto(t, "put_63")
    /\ UNCHANGED <<lockFrame, heapVars, mutex_, fifoSliceCaches_>>

\* KFifoCache::get(Key), lines 90-93, on the cache used on its own
CacheGetValue(t, key) ==
    /\ At(t, "idle")
    /\ thread' = [thread EXCEPT ![t] =
          [Idle EXCEPT !.pc = "get_78", !.op = "getv", !.key = key]]
    /\ UNCHANGED <<lockFrame, heapVars, mutex_, fifoSliceCaches_>>

\* lines 63, 78, 100 on the thread's cache: the lock_guard takes its mutex_
CacheLock(t) ==
    /\ thread[t].pc \in {"put_63", "get_78", "remove_100"}
    /\ Holder(thread[t].cache) = NoThread
    /\ SetHolder(thread[t].cache, t)
    /\ thread' = Goto(t, CASE thread[t].pc = "put_63" -> "put_64"
                            [] thread[t].pc = "get_78" -> "get_79"
                            [] thread[t].pc = "remove_100" -> "remove_101")
    /\ UNCHANGED <<lockFrame, heapVars>>

\* lines 64-72, 79-86, 101-106 on the thread's cache, under its mutex_
CacheBody(t) ==
    /\ thread[t].pc \in {"put_64", "get_79", "remove_101"}
    /\ LET a == thread[t]
           h == CacheHeap(a.cache)
       IN SetCacheHeap(a.cache,
             CASE a.pc = "put_64" -> put(h, CacheCapacity(a.cache), a.key, a.value)
               [] a.pc = "get_79" -> get(h, a.key, a.value).heap
               [] a.pc = "remove_101" -> remove(h, a.key))
    /\ thread' = Goto(t, "unlock")
    /\ UNCHANGED <<lockFrame, mutex_>>

\* the lock_guard's destructor and the return, which goes to the caller
\* or, in a get(Key), to its last line (94, or 218 by way of 210)
CacheUnlock(t) ==
    /\ At(t, "unlock")
    /\ SetHolder(thread[t].cache, NoThread)
    /\ thread' = IF thread[t].op \in {"getv", "hgetv"}
                 THEN [thread EXCEPT ![t] =
                         [Idle EXCEPT !.pc = "get_94", !.op = thread[t].op]]
                 ELSE [thread EXCEPT ![t] = Idle]
    /\ UNCHANGED <<lockFrame, heapVars>>

\* return value, line 94 or 218
ValueReturn(t) ==
    /\ At(t, "get_94")
    /\ thread' = [thread EXCEPT ![t] = Idle]
    /\ UNCHANGED <<lockFrame, heapVars, mutex_, fifoSliceCaches_>>

\* one KFifoCache of capacity ConcCap, and one KHashFifoCache of total
\* capacity ConcCap + 1, constructed with sliceNum ConcCap + 1 (shards of
\* capacity 1), or with sliceNum 0 on a host whose hardware_concurrency()
\* is 0
LockInit ==
    /\ capacity_ = ConcCap
    /\ Constructed
    /\ \E sliceNum \in {0, ConcCap + 1} :
          HashConstructed(ConcCap + 1, sliceNum, 0, [k \in Keys |-> k])

\* what a thread does once it is in a call, but for taking a mutex
Proceed(t) ==
    \/ Route(t)
    \/ CachePutCheck(t)
    \/ CacheBody(t)
    \/ CacheUnlock(t)
    \/ ValueReturn(t)

\* CacheBody(t) as the thread's own state shows it.  The statements under
\* the lock have no loop and no wait, so CacheBody(t) is enabled whenever
\* the thread is at them, and a step of LockNext is a CacheBody(t) step
\* exactly when it is a LeaveBody(t) step.
LeaveBody(t) ==
    /\ thread[t].pc \in {"put_64", "get_79", "remove_101"}
    /\ thread' = Goto(t, "unlock")

LockNext ==
    \E t \in Threads :
        \/ \E key \in ConcKeys : EnterHashPut(t, key, ValueOf(t))
        \/ \E key \in ConcKeys : EnterHashGet(t, key)
        \/ \E key \in ConcKeys : EnterHashGetValue(t, key)
        \/ \E key \in ConcKeys : CallPut(t, key, ValueOf(t))
        \/ \E key \in ConcKeys : CallGet(t, key)
        \/ \E key \in ConcKeys : CacheGetValue(t, key)
        \/ \E key \in ConcKeys : CallRemove(t, key)
        \/ Proceed(t)
        \/ CacheLock(t)
        \/ RouteFault(t)

\* Every thread that can take a step of its call takes one, and a thread
\* whose mutex is free again and again gets it.
LockSpec ==
    /\ LockInit
    /\ [][LockNext]_vars
    /\ \A t \in Threads :
          /\ WF_vars(Route(t))
          /\ WF_vars(CachePutCheck(t))
          /\ WF_thread(LeaveBody(t))
          /\ WF_vars(CacheUnlock(t))
          /\ WF_vars(ValueReturn(t))
          /\ SF_vars(CacheLock(t))


\* ----------------------------------------------------------- observers
\* the nodes linked after n, in next_ order, up to dummyTail_
RECURSIVE Walk(_, _, _)
Walk(h, n, fuel) ==
    IF n = dummyTail_ \/ n = NULL \/ fuel = 0
    THEN <<>>
    ELSE <<n>> \o Walk(h, h.next[n], fuel - 1)

\* the real nodes of the queue, oldest first
QueueNodes(h) == Walk(h, h.next[dummyHead_], NumNodes)
\* their keys
KeysOf(h, q) == [i \in 1..Len(q) |-> h.key[q[i]]]
QueueKeys(h) == KeysOf(h, QueueNodes(h))
Queue == QueueKeys(Heap)
Present == DOMAIN nodeMap_
\* the keys of calls i..j of the scenario so far
HistKeys(i, j) == [n \in 1..(j - i + 1) |-> hist[i + n - 1].key]
Scenario(n) == hist # Diverged /\ Len(hist) = n

\* ------------------------------------------------------------- claims

\* C1: with capacity C > 0 the index never holds more than C entries after
\* a call, and its size is the number of real nodes linked in the queue.
C1_BoundedSize ==
    /\ Len(QueueNodes(Heap)) = size(Heap)
    /\ capacity_ > 0 => size(Heap) <= capacity_

\* a put of a new key into a full cache has just evicted an entry
C1_Witness ==
    /\ capacity_ > 0
    /\ size(Heap) = capacity_
    /\ call.op = "put" /\ call.gone # {}

\* C2: a put of a new key that finds the cache full evicts exactly the key
\* next to the head sentinel, which is the present key that entered the
\* index earliest; and after C + 1 distinct keys put into the empty cache
\* the first is absent and the others are present.
C2_Step ==
    /\ (call'.op = "put" /\ ~call'.existed /\ capacity_ > 0 /\ size(Heap) >= capacity_) =>
          call'.gone # {}
    /\ (call'.op = "put" /\ call'.gone # {}) =>
          LET e == key_[next_[dummyHead_]]
          IN /\ call'.gone = {e}
             /\ e \in Present
             /\ older[e] = {}
             /\ \A j \in Present \ {e} : e \in older[j]
    /\ (Scenario(capacity_ + 1)' /\ ShapeFill(hist', capacity_)) =>
          /\ hist'[1].key \notin Present'
          /\ \A i \in 2..(capacity_ + 1) : hist'[i].key \in Present'

C2_FifoEviction == [][C2_Step]_vars

\* C + 1 distinct keys have been put into a cache of capacity C >= 2
C2_Witness ==
    /\ capacity_ >= 2
    /\ Scenario(capacity_ + 1) /\ ShapeFill(hist, capacity_)
    /\ call.gone = {hist[1].key}

\* C3 as stated: after k1..kC, put(k1, newValue) and put of a new key, the
\* key evicted is k2, k1 is still present, and get(k1) finds newValue.
C3_UpdateScenarioAsStated ==
    (capacity_ >= 2 /\ hist # Diverged /\ ShapeUpdate(hist, capacity_)) =>
        /\ Len(hist) = capacity_ + 2 =>
              call.gone = {hist[2].key} /\ hist[1].key \in Present
        /\ Len(hist) = capacity_ + 3 =>
              call.found /\ call.ret = hist[capacity_ + 1].value

\* C3 as amended: put(k1, newValue) stores newValue and leaves k1 the oldest
\* entry, so the put of the new key evicts k1 and not k2, and get(k1) then
\* reports not found.
C3_UpdateScenario ==
    (capacity_ >= 2 /\ hist # Diverged /\ ShapeUpdate(hist, capacity_)) =>
        /\ Len(hist) = capacity_ + 1 =>
              /\ get(Heap, hist[1].key, DefaultValue).found
              /\ get(Heap, hist[1].key, DefaultValue).value = hist[capacity_ + 1].value
              /\ Queue = HistKeys(1, capacity_)
        /\ Len(hist) >= capacity_ + 2 =>
              /\ hist[1].key \notin Present
              /\ hist[2].key \in Present
              /\ Queue = HistKeys(2, capacity_) \o <<hist[capacity_ + 2].key>>
        /\ Len(hist) = capacity_ + 2 => call.gone = {hist[1].key}
        /\ Len(hist) = capacity_ + 3 => ~call.found

\* the whole update scenario has run, with a new value unlike the old one
C3_Witness ==
    /\ capacity_ >= 2
    /\ Scenario(capacity_ + 3) /\ ShapeUpdate(hist, capacity_)
    /\ hist[capacity_ + 1].value # hist[1].value
    /\ call.op = "get"

\* C4: a put of a present key replaces that entry's value and nothing else:
\* links, keys, index, every other value and the order of eviction stay,
\* and nothing is evicted, also when the cache is full.
C4_Step ==
    (call'.op = "put" /\ call'.existed) =>
        /\ nodeMap_' = nodeMap_
        /\ key_' = key_ /\ prev_' = prev_ /\ next_' = next_
        /\ value_' = [value_ EXCEPT ![nodeMap_[call'.key]] = call'.value]
        /\ call'.gone = {}
        /\ Queue' = Queue
        /\ older' = older

C4_UpdateInPlace == [][C4_Step]_vars

\* the oldest key of a full cache has just been given another value
C4_Witness ==
    /\ call.op = "put" /\ call.existed
    /\ size(Heap) = capacity_ /\ capacity_ >= 2
    /\ call.key = Queue[1]
    /\ call.value # DefaultValue

\* C5: get returns (true, stored value) for a present key and false for an
\* absent one, and changes neither the queue, the index nor any value; in
\* the example (C + 1 distinct keys, get of the second, put of a new key)
\* the get finds the key and the put evicts it.
C5_Step ==
    /\ call'.op = "get" =>
          /\ UNCHANGED heapVars
          /\ Queue' = Queue
          /\ older' = older
          /\ call'.gone = {}
          /\ call'.key \in Present =>
                call'.found /\ call'.ret = value_[nodeMap_[call'.key]]
          /\ call'.key \notin Present => ~call'.found
    /\ (Scenario(capacity_ + 2)' /\ ShapeRead(hist', capacity_)) =>
          /\ call'.found
          /\ Queue' = [n \in 1..capacity_ |-> hist'[n + 1].key]
    /\ (Scenario(capacity_ + 3)' /\ ShapeRead(hist', capacity_)) =>
          /\ call'.gone = {hist'[2].key}
          /\ Queue' = [n \in 1..capacity_ |->
                          IF n < capacity_ THEN hist'[n + 2].key
                          ELSE hist'[capacity_ + 3].key]

C5_GetReadOnly == [][C5_Step]_vars

\* the example has run to its end on a cache of capacity >= 2
C5_Witness ==
    /\ capacity_ >= 2
    /\ Scenario(capacity_ + 3) /\ ShapeRead(hist, capacity_)
    /\ call.gone = {hist[2].key}

\* key j is linked before key k in q
Before(q, j, k) ==
    \E a, b \in 1..Len(q) : a < b /\ q[a] = j /\ q[b] = k

\* the scenario so far is m distinct keys, then remove, get and put of the
\* first of them
Reinserted(m) ==
    /\ Scenario(m + 3) /\ ShapeReinsert(hist, capacity_)
    /\ DistinctPuts(hist, m)
    /\ hist[m + 1].op = "remove" /\ hist[m + 1].key = hist[1].key

\* C7: after remove(k) a get of k reports not found; a put of an absent key
\* on a cache of capacity > 0 makes it present with the value put, as the
\* last node of the queue, behind every key present at that time, and a
\* key is evicted only when none of those keys is present any more.
C7_Step ==
    /\ call'.op = "remove" =>
          /\ call'.key \notin Present'
          /\ ~get(Heap', call'.key, DefaultValue).found
    /\ (call.op = "remove" /\ call'.op = "get" /\ call'.key = call.key) =>
          ~call'.found
    /\ (call'.op = "put" /\ ~call'.existed /\ capacity_ > 0) =>
          /\ call'.key \in Present'
          /\ value_'[nodeMap_'[call'.key]] = call'.value
          /\ next_'[nodeMap_'[call'.key]] = dummyTail_
          /\ prev_'[dummyTail_] = nodeMap_'[call'.key]
          /\ older'[call'.key] = Present' \ {call'.key}
    /\ \A q \in {Queue'} : \A k \in Present' : \A j \in older'[k] :
          j \in Present' /\ Before(q, j, k)
    /\ call'.op = "put" => \A k \in call'.gone : older[k] = {}

C7_RemoveReinsert == [][C7_Step]_vars

\* the oldest of m >= 2 keys was removed, looked up and put again, and is
\* now the newest
C7_Witness ==
    \E m \in 2..MaxCap :
        /\ m <= capacity_
        /\ Reinserted(m)
        /\ Queue = HistKeys(2, m) \o <<hist[1].key>>
        /\ call.value # DefaultValue

\* C8: a cache of capacity <= 0 stays as constructed (empty index, empty
\* queue) whatever is called, and every get reports not found.
C8_DegenerateCapacity ==
    capacity_ <= 0 =>
        /\ Heap = initializeQueue
        /\ Present = {} /\ Queue = <<>>
        /\ call.gone = {}
        /\ call.op = "get" => ~call.found

\* a put and a get of its key on a cache of negative capacity
C8_Witness ==
    /\ capacity_ < 0
    /\ Scenario(2) /\ ShapeInert(hist, capacity_)
    /\ call.op = "get" /\ ~call.found

\* C9: the index starts empty, a key enters it only by a put of that key,
\* and a get of an absent key reports not found and leaves it absent; so a
\* get of a key never put reports not found, every time, whatever was
\* called on other keys.
C9_Step ==
    /\ \A k \in Keys :
          (k \notin Present /\ k \in Present') =>
              call'.op = "put" /\ call'.key = k
    /\ (call'.op = "get" /\ call'.key \notin Present) =>
          ~call'.found /\ call'.key \notin Present'
    /\ (hist' # Diverged /\ ShapeMiss(hist', capacity_)) =>
          ~call'.found

C9_IdempotentMiss == Present = {} /\ [][C9_Step]_vars

\* after C + 1 other keys were put (one was evicted), the key Key() that
\* the sentinels carry has been looked up twice
C9_Witness ==
    /\ capacity_ >= 1
    /\ Scenario(capacity_ + 3) /\ ShapeMiss(hist, capacity_)
    /\ DistinctPuts(hist, capacity_ + 1)
    /\ call.op = "get" /\ call.key = DefaultKey /\ ~call.found

\* the index and the queue of h agree: the queue runs from dummyHead_ to
\* dummyTail_ with next_ and prev_ inverse to each other, its keys are
\* pairwise distinct and are exactly the keys of the index, and the index
\* maps each key to the queue node that carries it
Agreement(h) ==
    LET q == QueueNodes(h)
        chain == <<dummyHead_>> \o q \o <<dummyTail_>>
    IN /\ \A i \in 1..(Len(chain) - 1) :
             /\ h.next[chain[i]] = chain[i + 1]
             /\ h.prev[chain[i + 1]] = chain[i]
       /\ h.prev[dummyHead_] = NULL /\ h.next[dummyTail_] = NULL
       /\ \A i, j \in 1..Len(q) : i # j => h.key[q[i]] # h.key[q[j]]
       /\ DOMAIN h.nodeMap = {h.key[q[i]] : i \in 1..Len(q)}
       /\ \A k \in DOMAIN h.nodeMap :
             /\ h.key[h.nodeMap[k]] = k
             /\ \E i \in 1..Len(q) : q[i] = h.nodeMap[k]

AllIdle == \A t \in Threads : thread[t].pc = "idle"
Waiting(t) == thread[t].pc \in {"put_63", "get_78", "remove_100"}

\* C6: whenever no running call holds the mutex, index and queue agree.
C6_IndexQueueAgreement == mutex_ = NoThread => Agreement(Heap)

\* the mutex is free, the shard is full and holds the last key with some
\* thread's value, and a call is waiting for the mutex
C6_Witness ==
    /\ mutex_ = NoThread
    /\ capacity_ >= 1 /\ size(Heap) = capacity_
    /\ \E t \in Threads : Waiting(t)
    /\ \E t \in Threads :
          ConcCap \in Present /\ value_[nodeMap_[ConcCap]] = ValueOf(t)

\* C10: once all calls of all threads have returned, index and queue agree,
\* the capacity bound holds, and the heap is the one the same calls leave
\* when they run one at a time in the order they took the mutex; each call
\* has that effect, and each get that result, by the time it releases the
\* mutex.
C10_Linearizable ==
    /\ AllIdle =>
          /\ Agreement(Heap)
          /\ capacity_ > 0 => size(Heap) <= capacity_
          /\ Heap = seq
    /\ \A t \in Threads :
          thread[t].pc = "unlock" =>
              /\ Heap = seq
              /\ thread[t].op = "get" =>
                    /\ thread[t].found = thread[t].expFound
                    /\ thread[t].ret = thread[t].expRet

\* a get that found the value another thread put is about to return, on a
\* full shard, while that thread's next put waits for the mutex
C10_Witness ==
    \E t, u \in Threads :
        /\ t # u
        /\ thread[t].pc = "unlock" /\ thread[t].op = "get"
        /\ thread[t].found /\ thread[t].ret = ValueOf(u)
        /\ Waiting(u) /\ thread[u].op = "put"
        /\ size(Heap) = capacity_

\* the statements between the construction of the lock_guard and its
\* destruction
InLock ==
    {"put_64", "put_68", "add_131", "evict_168", "evict_170", "add_137",
     "add_139", "get_79", "remove_101", "remove_104", "remove_105", "unlock"}

\* C11 as stated: a thread inside put, get or remove holds the mutex for
\* the whole body of the call, from its first statement (where it may wait
\* for the mutex) to its return.
C11_LockingAsStated ==
    \A t \in Threads :
        (thread[t].pc # "idle" /\ ~Waiting(t)) => mutex_ = t

\* C11 as amended: put, get(Key, Value&) and remove hold the mutex from
\* their lock_guard to their return, whichever return it is, and get(Key)
\* holds it through the get(Key, Value&) it calls; a thread holds it at no
\* other time.  Only the holder's steps write the queue, the index or a
\* value, and a thread that has just taken the mutex finds index and queue
\* in agreement.  Outside the mutex are put's test of capacity_ (a put on
\* capacity_ <= 0 returns without taking it) and the first and last line
\* of get(Key).
C11_Step ==
    /\ \A t \in Threads : thread[t].pc \in InLock <=> mutex_ = t
    /\ (\E t \in Threads : thread[t].pc \in {"put_64", "get_79", "remove_101"}) =>
          Agreement(Heap)
    /\ heapVars' # heapVars =>
          /\ mutex_ # NoThread
          /\ \A t \in Threads : thread'[t] # thread[t] => mutex_ = t
    /\ \A t \in Threads :
          (thread[t].pc # "idle" /\ thread'[t].pc = "idle") =>
              \/ mutex_ = t /\ mutex_' = NoThread
              \/ thread[t].pc = "put_60" /\ capacity_ <= 0
              \/ thread[t].pc = "get_94"

C11_LockingDiscipline == [][C11_Step]_vars

\* a put holds the mutex between linking its node and indexing it, where
\* index and queue disagree, while another thread waits for the mutex
C11_Witness ==
    \E t, u \in Threads :
        /\ mutex_ = t /\ thread[t].pc = "add_139"
        /\ ~Agreement(Heap)
        /\ Waiting(u)

Min(a, b) == IF a <= b THEN a ELSE b

\* C16: a put of a new key into a cache of capacity C > 0 that holds n
\* entries evicts one entry when n >= C and none otherwise, and leaves
\* min(n + 1, C) entries; no put evicts more than one entry or evicts
\* when the key is present; a get evicts nothing, and a remove takes out
\* at most its own key.
C16_Step ==
    /\ (call'.op = "put" /\ ~call'.existed /\ capacity_ > 0) =>
          /\ Cardinality(call'.gone) = (IF size(Heap) >= capacity_ THEN 1 ELSE 0)
          /\ size(Heap') = Min(size(Heap) + 1, capacity_)
    /\ call'.op = "put" => Cardinality(call'.gone) <= 1
    /\ (call'.op = "put" /\ call'.existed) => call'.gone = {} /\ size(Heap') = size(Heap)
    /\ call'.op = "get" => call'.gone = {} /\ size(Heap') = size(Heap)
    /\ call'.op = "remove" =>
          /\ call'.gone = (IF call'.existed THEN {call'.key} ELSE {})
          /\ Present' = Present \ {call'.key}

C16_EvictAtMostOnce == [][C16_Step]_vars

\* a put of a new key has evicted one of the C >= 2 entries of a full
\* cache, which is full again
C16_Witness ==
    /\ capacity_ >= 2
    /\ call.op = "put" /\ ~call.existed
    /\ Cardinality(call.gone) = 1
    /\ size(Heap) = capacity_

\* C19: on a cache of capacity >= 1 a get of k right after put(k, v)
\* returns (true, v), whether k was new or present and whether the cache
\* was full; and a put never evicts the key it puts.
C19_Step ==
    /\ (capacity_ >= 1 /\ call'.op = "put") =>
          /\ get(Heap', call'.key, DefaultValue).found
          /\ get(Heap', call'.key, DefaultValue).value = call'.value
    /\ (capacity_ >= 1 /\ call.op = "put"
          /\ call'.op = "get" /\ call'.key = call.key) =>
          call'.found /\ call'.ret = call.value
    /\ call'.op = "put" => call'.key \notin call'.gone

C19_ReadYourWrite == [][C19_Step]_vars

\* a get has found the value other than Value() that the put before it
\* stored under a new key while evicting from the full cache
C19_Witness ==
    /\ capacity_ >= 2
    /\ Scenario(capacity_ + 2) /\ ShapeEcho(hist, capacity_)
    /\ DistinctPuts(hist, capacity_)
    /\ hist[capacity_ + 1].key \notin FirstKeys(hist, capacity_)
    /\ hist[capacity_ + 1].value # DefaultValue
    /\ call.op = "get" /\ call.found
    /\ call.ret = hist[capacity_ + 1].value

\* the node the queue ends in: the next_ of its last real node, or of
\* dummyHead_ when it has none
QueueEnd ==
    LET q == QueueNodes(Heap)
    IN IF q = <<>> THEN next_[dummyHead_] ELSE next_[q[Len(q)]]

Sentinels == {dummyHead_, dummyTail_}

\* C18, in every state: the queue starts at dummyHead_, which has no
\* predecessor, and ends in dummyTail_, which has no successor; the
\* sentinels keep Key() and Value(), are not in the index and not among
\* the nodes counted; no running call has a sentinel in hand to update,
\* unlink or evict; evictOldest starts only when a real node follows
\* dummyHead_, and erases that node's key from the index; and a get of
\* Key() reports found only when Key() is in the index.
C18_Inv ==
    /\ prev_[dummyHead_] = NULL /\ next_[dummyTail_] = NULL
    /\ QueueEnd = dummyTail_
    /\ prev_[dummyTail_] # NULL
    /\ \A n \in Sentinels : key_[n] = DefaultKey /\ value_[n] = DefaultValue
    /\ \A k \in Present : nodeMap_[k] \notin Sentinels
    /\ \A i \in 1..Len(QueueNodes(Heap)) : QueueNodes(Heap)[i] \notin Sentinels
    /\ \A t \in Threads :
          /\ thread[t].node \notin Sentinels
          /\ thread[t].pc = "evict_168" =>
                /\ next_[dummyHead_] \notin Sentinels \cup {NULL}
                /\ size(Heap) >= 1
                /\ key_[next_[dummyHead_]] \in Present
                /\ nodeMap_[key_[next_[dummyHead_]]] = next_[dummyHead_]
          /\ thread[t].pc = "evict_170" =>
                /\ key_[thread[t].node] \in Present
                /\ nodeMap_[key_[thread[t].node]] = thread[t].node
          /\ (thread[t].pc = "unlock" /\ thread[t].op \in {"get", "getv"}
                /\ thread[t].key = DefaultKey) =>
                (thread[t].found <=> DefaultKey \in Present)

\* C18, in every step: Key() enters the index only by the put of Key()
\* that is running, so a get of Key() that was never put reports not
\* found.
C18_Step ==
    (DefaultKey \notin Present /\ DefaultKey \in Present') =>
        \E t \in Threads :
            /\ thread[t].pc = "add_139"
            /\ thread[t].op = "put" /\ thread[t].key = DefaultKey

C18_SentinelsNeverData == []C18_Inv /\ [][C18_Step]_vars

\* evictOldest has unlinked the only entry of the cache, which is not
\* Key(), leaving dummyHead_ linked to dummyTail_, while a get of Key()
\* waits
C18_Witness ==
    \E t, u \in Threads :
        /\ thread[t].pc = "evict_170"
        /\ key_[thread[t].node] # DefaultKey
        /\ next_[dummyHead_] = dummyTail_ /\ prev_[dummyTail_] = dummyHead_
        /\ Waiting(u) /\ thread[u].op \in {"get", "getv"}
        /\ thread[u].key = DefaultKey

\* the shards, the keys a shard holds, and the entries in all shards
Slices == DOMAIN fifoSliceCaches_
SliceKeys(i) == DOMAIN fifoSliceCaches_[i].heap.nodeMap
TotalEntries == Cardinality({<<i, k>> \in Slices \X Keys : k \in SliceKeys(i)})
\* a call on the KHashFifoCache has just returned
Returned(op) == hcall'.op = op /\ (hcall' # hcall \/ fifoSliceCaches_' # fifoSliceCaches_)

\* C13: the shard count and the hash never change; a put or get of a key
\* goes to shard hash(key) mod N; every key a shard holds hashes to that
\* shard, so no key is in two shards; and a get that follows a put of the
\* same key goes to the same shard, which holds the key when its capacity
\* is positive.
C13_Step ==
    /\ sliceNum_' = sliceNum_ /\ host' = host /\ Slices' = Slices
    /\ hcall' # hcall =>
          /\ hcall'.slice \in Slices
          /\ hcall'.slice = host.hash[hcall'.key] % sliceNum_
    /\ \A i \in Slices : \A k \in DOMAIN fifoSliceCaches_'[i].heap.nodeMap :
          /\ host.hash[k] % sliceNum_ = i
          /\ \A j \in Slices \ {i} : k \notin DOMAIN fifoSliceCaches_'[j].heap.nodeMap
    /\ (hcall.op = "put" /\ hcall'.op = "get" /\ hcall'.key = hcall.key) =>
          /\ hcall'.slice = hcall.slice
          /\ fifoSliceCaches_[hcall.slice].capacity_ > 0 =>
                hcall'.found /\ hcall.key \in SliceKeys(hcall.slice)

C13_ShardingConsistency == [][C13_Step]_vars

\* with a hash that is not the identity and three shards, each of which
\* holds a key, a get has found the key just put
C13_Witness ==
    /\ sliceNum_ = 3 /\ args.capacity >= 1
    /\ host.hash[1] # 1
    /\ \A i \in Slices : SliceKeys(i) # {}
    /\ hcall.op = "get" /\ hcall.found /\ hcall.slice = 2

\* C14: KHashFifoCache(total, N) with total >= 0 and N >= 1 has N shards,
\* each of capacity c = ceil(total / N), the least c with c * N >= total;
\* a shard holds at most c entries and the cache at most N * c, which is
\* at least total, less than total + N, and more than total when N does
\* not divide total.
C14_ShardCapacity ==
    (args.capacity >= 0 /\ sliceNum_ >= 1) =>
        /\ args.sliceNum >= 1 => sliceNum_ = args.sliceNum
        /\ Slices = 0..(sliceNum_ - 1)
        /\ \A i \in Slices :
              LET c == fifoSliceCaches_[i].capacity_
              IN /\ c * sliceNum_ >= args.capacity
                 /\ (c - 1) * sliceNum_ < args.capacity
                 /\ size(fifoSliceCaches_[i].heap) <= c
                 /\ TotalEntries <= sliceNum_ * c
                 /\ sliceNum_ * c >= args.capacity
                 /\ sliceNum_ * c < args.capacity + sliceNum_
                 /\ args.capacity % sliceNum_ # 0 => sliceNum_ * c > args.capacity

\* the cache holds more entries than the total it was constructed with
C14_Witness ==
    /\ args.capacity >= 1 /\ args.sliceNum >= 2
    /\ args.capacity % sliceNum_ # 0
    /\ TotalEntries > args.capacity
    /\ TotalEntries = sliceNum_ * fifoSliceCaches_[0].capacity_

\* C15: a KHashFifoCache constructed with a total capacity of 0 or less
\* holds no entry, whatever is put, and every get reports not found.
C15_DegenerateSharded ==
    args.capacity <= 0 =>
        /\ \A i \in Slices : SliceKeys(i) = {}
        /\ hcall.op = "get" => ~hcall.found

\* C17: a put or get leaves every shard but the one its key routes to as
\* it was, and a get leaves that one too; a put of a new key into a shard
\* of positive capacity evicts from that shard, and does so exactly when
\* that shard is full, however empty the others are.
C17_Step ==
    /\ \A j \in Slices :
          j # host.hash[hcall'.key] % sliceNum_ =>
              fifoSliceCaches_'[j] = fifoSliceCaches_[j]
    /\ hcall'.op \in {"get", "getv"} => fifoSliceCaches_' = fifoSliceCaches_
    /\ \A i \in Slices :
          LET before == fifoSliceCaches_[i]
              gone == SliceKeys(i) \ DOMAIN fifoSliceCaches_'[i].heap.nodeMap
          IN /\ gone # {} =>
                   /\ hcall'.op = "put" /\ hcall'.slice = i
                   /\ hcall'.gone = gone
                   /\ size(before.heap) >= before.capacity_
                   /\ gone = {before.heap.key[before.heap.next[dummyHead_]]}
             /\ (Returned("put") /\ hcall'.slice = i
                   /\ hcall'.key \notin SliceKeys(i) /\ before.capacity_ > 0
                   /\ size(before.heap) >= before.capacity_) =>
                   gone # {}

C17_ShardIsolation == [][C17_Step]_vars

\* a put has evicted from its full shard while another shard is empty and
\* the cache holds fewer entries than the total it was constructed with
C17_Witness ==
    /\ args.capacity >= 2 /\ sliceNum_ >= 2
    /\ hcall.op = "put" /\ hcall.gone # {}
    /\ size(fifoSliceCaches_[hcall.slice].heap) = fifoSliceCaches_[hcall.slice].capacity_
    /\ \E j \in Slices : SliceKeys(j) = {}
    /\ TotalEntries < args.capacity

\* C20: whatever sliceNum is given and whatever the host reports, there
\* is at least one shard, there are exactly sliceNum_ shards, and every
\* key's hash(key) mod sliceNum_ is defined and is the index of a shard.
C20_RoutingInRange ==
    /\ sliceNum_ >= 1
    /\ Slices = 0..(sliceNum_ - 1)
    /\ \A k \in Keys : host.hash[k] % sliceNum_ \in Slices
    /\ ~fault

\* the caches there are, and those whose mutex_ thread t holds
Caches == {Alone} \cup Slices
Held(t) == {c \in Caches : Holder(c) = t}

\* C12, in every state: a thread holds at most one mutex, and only that
\* of the cache its call runs on, from the lock_guard to the return; a
\* thread that waits for a mutex holds none, so it never waits for one it
\* holds and never keeps another thread waiting while it waits itself.
C12_Inv ==
    \A t \in Threads :
        /\ Cardinality(Held(t)) <= 1
        /\ Held(t) \subseteq {thread[t].cache}
        /\ Held(t) # {} <=> thread[t].pc \in {"put_64", "get_79", "remove_101", "unlock"}
        /\ Waiting(t) => Held(t) = {}

\* C12: and, every thread that can step stepping and every thread whose
\* mutex is free again and again getting it, every call a thread has
\* entered returns, with no mutex held by the thread.
C12_DeadlockFree ==
    /\ []C12_Inv
    /\ \A t \in Threads :
          (thread[t].pc # "idle") ~> (thread[t].pc = "idle" /\ Held(t) = {})

\* the calls on the KHashFifoCache
HashOps == {"hput", "hget", "hgetv"}

\* What does hold: the mutexes are used as C12_Inv says, LeaveBody is
\* CacheBody, and every call returns with no mutex held but a call on a
\* KHashFifoCache that has no shard.
C12_ReturnsButUnsharded ==
    /\ []C12_Inv
    /\ [][\A t \in Threads : LeaveBody(t) <=> CacheBody(t)]_vars
    /\ \A t \in Threads :
          (thread[t].pc # "idle" /\ ~(sliceNum_ = 0 /\ thread[t].op \in HashOps))
              ~> (thread[t].pc = "idle" /\ Held(t) = {})

\* a get(Key) on the sharded cache holds the mutex of shard 1 while another
\* thread waits for it and a third call holds the mutex of the cache used
\* on its own
C12_Witness ==
    \E t, u \in Threads :
        /\ t # u
        /\ thread[t].op = "hgetv" /\ Held(t) = {1}
        /\ Waiting(u) /\ thread[u].cache = 1 /\ thread[u].op = "hput"

\* a put on the KHashFifoCache that has no shard has divided by zero
C12_Stuck ==
    \E t \in Threads :
        thread[t].pc = "hput_201" /\ sliceNum_ = 0 /\ fault

=============================================================================
